---------------------------- MODULE Spec2Model ----------------------------
(***************************************************************************)
(* Model of the Stockholm repository:                                      *)
(*   client/src/app/scraper/scraper.ts  - the government-bond scraper      *)
(*   src/app/api/agent1/route.ts        - the in-memory CRUD route         *)
(*                                                                         *)
(* JavaScript strings are TLA+ strings; the character at (1-based)         *)
(* position i of s is SubSeq(s, i, i).  JavaScript numbers that come out   *)
(* of parseFloat are kept as exact decimals  mant * 10^exp  (sign apart),  *)
(* together with the two non-finite outcomes NaN and +/-Infinity.          *)
(***************************************************************************)
EXTENDS Integers, Sequences, FiniteSets, TLC

VARIABLES
  pc,           \* position of the running program / request handler
  idx,          \* scrapeAllCountries: index into COUNTRIES of the current country
  browser,      \* "none" | "open" | "closed": the browser of puppeteer.launch
  pages,        \* per country: "none" | "open" | "closed", the page of browser.newPage
  document,     \* the rendered document of the current page
  countryData,  \* scrapeAllCountries: the list scrapeCountryBonds returned
  allData,      \* scrapeAllCountries: allData / main: allResults
  results,      \* main: the filtered list
  now,          \* the clock read by new Date()
  thrown,       \* the step whose rejection left scrapeCountryBonds / scrapeAllCountries
  inTry,        \* history: the step that sent control to the catch block ("" if none)
  served,       \* history, per country: the document page.evaluate ran on
  returned,     \* history, per country: the list scrapeCountryBonds returned
  strategies,   \* history: the strategies the last page.evaluate callback ran, in order
  text,         \* parseNumeric: its argument
  num,          \* parseNumeric: its result
  countryName,  \* page.evaluate callback: its argument
  bonds,        \* page.evaluate callback: the bonds array of one strategy
  data,         \* route.ts: the module-level item list
  response      \* route.ts: the status of the last response

vars == <<pc, idx, browser, pages, document, countryData, allData, results, now,
          thrown, inTry, served, returned, strategies, text, num, countryName,
          bonds, data, response>>

-----------------------------------------------------------------------------
(* Strings *)

At(s, i) == SubSeq(s, i, i)

Drop(s, n) == SubSeq(s, n + 1, Len(s))

StartsWith(s, p) == Len(p) <= Len(s) /\ SubSeq(s, 1, Len(p)) = p

\* String.prototype.includes
Includes(s, sub) ==
  \E i \in 0..(Len(s) - Len(sub)) : SubSeq(s, i + 1, i + Len(sub)) = sub

UpperCase == "ABCDEFGHIJKLMNOPQRSTUVWXYZ"
LowerCase == "abcdefghijklmnopqrstuvwxyz"

ToLowerChar(c) ==
  IF \E i \in 1..26 : At(UpperCase, i) = c
  THEN At(LowerCase, CHOOSE i \in 1..26 : At(UpperCase, i) = c)
  ELSE c

\* String.prototype.toLowerCase
RECURSIVE ToLowerCase(_)
ToLowerCase(s) ==
  IF s = "" THEN "" ELSE ToLowerChar(At(s, 1)) \o ToLowerCase(Drop(s, 1))

WhiteSpace == {" ", "\t", "\n", "\r"}

RECURSIVE TrimStart(_)
TrimStart(s) ==
  IF s # "" /\ At(s, 1) \in WhiteSpace THEN TrimStart(Drop(s, 1)) ELSE s

RECURSIVE TrimEnd(_)
TrimEnd(s) ==
  IF s # "" /\ At(s, Len(s)) \in WhiteSpace
  THEN TrimEnd(SubSeq(s, 1, Len(s) - 1)) ELSE s

\* String.prototype.trim
Trim(s) == TrimEnd(TrimStart(s))

\* s.replace(/[<set>]/g, '')
RECURSIVE RemoveChars(_, _)
RemoveChars(s, set) ==
  IF s = "" THEN ""
  ELSE (IF At(s, 1) \in set THEN "" ELSE At(s, 1)) \o RemoveChars(Drop(s, 1), set)

Min(S) == CHOOSE i \in S : \A j \in S : i <= j

Digit == {"0", "1", "2", "3", "4", "5", "6", "7", "8", "9"}

DigitVal(c) == CHOOSE d \in 0..9 : At("0123456789", d + 1) = c

\* the regular expression class \w
WordChar ==
  Digit \cup {"_"} \cup {At(UpperCase, i) : i \in 1..26}
        \cup {At(LowerCase, i) : i \in 1..26}

\* length of the longest prefix of s made of digits
RECURSIVE DigitPrefixLen(_)
DigitPrefixLen(s) ==
  IF s # "" /\ At(s, 1) \in Digit THEN 1 + DigitPrefixLen(Drop(s, 1)) ELSE 0

RECURSIVE DigitsToNat(_)
DigitsToNat(s) ==
  IF s = "" THEN 0
  ELSE 10 * DigitsToNat(SubSeq(s, 1, Len(s) - 1)) + DigitVal(At(s, Len(s)))

-----------------------------------------------------------------------------
(* Numbers *)

null == [kind |-> "null", neg |-> FALSE, mant |-> 0, exp |-> 0]
NaN == [kind |-> "NaN", neg |-> FALSE, mant |-> 0, exp |-> 0]
Infinity(neg) == [kind |-> "Infinity", neg |-> neg, mant |-> 0, exp |-> 0]

RECURSIVE NumDigits(_)
NumDigits(m) == IF m < 10 THEN 1 ELSE 1 + NumDigits(m \div 10)

RECURSIVE StripZeros(_, _)
StripZeros(m, e) ==
  IF m % 10 = 0 THEN StripZeros(m \div 10, e + 1) ELSE <<m, e>>

RECURSIVE FirstDigits(_, _)
FirstDigits(m, n) ==
  IF NumDigits(m) > n THEN FirstDigits(m \div 10, n)
  ELSE IF NumDigits(m) < n THEN FirstDigits(m * 10, n)
  ELSE m

\* The Number value of the decimal  (-1)^neg * m * 10^e : exact inside the double
\* range, +/-Infinity above Number.MAX_VALUE (1.7976931348623157e308), zero below
\* the smallest denormal (4.9e-324).  Zero carries no sign (-0 === 0).
Finite(neg, m, e) ==
  IF m = 0 THEN [kind |-> "finite", neg |-> FALSE, mant |-> 0, exp |-> 0]
  ELSE LET n == StripZeros(m, e)
           magnitude == NumDigits(n[1]) + n[2]
       IN  IF magnitude > 309 \/ (magnitude = 309 /\ FirstDigits(n[1], 5) > 17976)
           THEN Infinity(neg)
           ELSE IF magnitude < -323
           THEN [kind |-> "finite", neg |-> FALSE, mant |-> 0, exp |-> 0]
           ELSE [kind |-> "finite", neg |-> neg, mant |-> n[1], exp |-> n[2]]

\* the global isNaN
isNaN(n) == n.kind = "NaN"

\* the exponent part of a StrDecimalLiteral at the head of s: <<its length, its value>>
ExponentPart(s) ==
  IF s # "" /\ At(s, 1) \in {"e", "E"}
  THEN LET signed == Len(s) >= 2 /\ At(s, 2) \in {"+", "-"}
           ds == Drop(s, IF signed THEN 2 ELSE 1)
           k == DigitPrefixLen(ds)
           v == DigitsToNat(SubSeq(ds, 1, k))
       IN  IF k = 0 THEN <<0, 0>>
           ELSE <<(IF signed THEN 2 ELSE 1) + k,
                  IF signed /\ At(s, 2) = "-" THEN 0 - v ELSE v>>
  ELSE <<0, 0>>

\* the global parseFloat: the longest prefix of the trimmed text that is a
\* StrDecimalLiteral decides the result; what follows it is ignored
parseFloat(s) ==
  LET t == TrimStart(s)
      signed == t # "" /\ At(t, 1) \in {"+", "-"}
      neg == signed /\ At(t, 1) = "-"
      u == IF signed THEN Drop(t, 1) ELSE t
      ip == DigitPrefixLen(u)
      hasDot == Len(u) > ip /\ At(u, ip + 1) = "."
      fp == IF hasDot THEN DigitPrefixLen(Drop(u, ip + 1)) ELSE 0
      mantLen == ip + (IF hasDot THEN 1 + fp ELSE 0)
      ex == ExponentPart(Drop(u, mantLen))
      digits == SubSeq(u, 1, ip) \o (IF hasDot THEN SubSeq(u, ip + 2, ip + 1 + fp) ELSE "")
  IN  IF StartsWith(u, "Infinity") THEN Infinity(neg)
      ELSE IF ip = 0 /\ fp = 0 THEN NaN
      ELSE Finite(neg, DigitsToNat(digits), ex[2] - fp)

\* scraper.ts: parseNumeric
parseNumeric(t) ==
  IF t = "" \/ Trim(t) = "" \/ t = "--" \/ t = "N/A" THEN null
  ELSE LET cleaned == Trim(RemoveChars(t, {",", "%", "$", "£", "€", "¥"}))
           n == parseFloat(cleaned)
       IN  IF isNaN(n) THEN null ELSE n

-----------------------------------------------------------------------------
(* The rendered document, as the page.evaluate callback reads it:            *)
(*   tables    document.querySelectorAll('table'), each table the list of   *)
(*             its rows table.querySelectorAll('tr')                        *)
(*   selected  for each of the ten bloombergSelectors, in list order, the   *)
(*             elements document.querySelectorAll(selector), each element   *)
(*             the list of its rows                                         *)
(*             element.querySelectorAll('tr, .table-row, [role="row"]')     *)
(*   innerText document.body.innerText                                      *)
(* A row is [textContent, tdth, cellLike]: its text, the textContent of its *)
(* 'td, th' descendants, and the textContent of its descendants matching    *)
(* 'td, .table-cell, .data-cell, [role="cell"], [role="gridcell"]'.         *)

NumSelectors == 10

Row(txt, tdth, cellLike) == [textContent |-> txt, tdth |-> tdth, cellLike |-> cellLike]

Doc(tables, selected, innerText) ==
  [tables |-> tables, selected |-> selected, innerText |-> innerText]

NoSelected == [s \in 1..NumSelectors |-> <<>>]

BlankDocument == Doc(<<>>, NoSelected, "")

Bond(cn, name, coupon, price, yield, oneMonth, oneYear, at) ==
  [country |-> cn, name |-> name, coupon |-> coupon, price |-> price,
   yield |-> yield, oneMonth |-> oneMonth, oneYear |-> oneYear, scrapedAt |-> at]

\* cells[k]?.textContent?.trim() || ''   (k counted from 0 as in the source)
CellText(cells, k) == IF k + 1 <= Len(cells) THEN Trim(cells[k + 1]) ELSE ""

\* the record both DOM strategies push for a row
RowBond(cells, cn, at) ==
  Bond(cn, CellText(cells, 0),
       parseNumeric(CellText(cells, 1)), parseNumeric(CellText(cells, 2)),
       parseNumeric(CellText(cells, 3)), parseNumeric(CellText(cells, 4)),
       parseNumeric(CellText(cells, 5)), at)

HasDigit(s) == \E i \in 1..Len(s) : At(s, i) \in Digit

(* Strategy 1: tables *)

HeaderKeywords ==
  <<"name", "security", "bond", "gilt", "treasury", "yield", "maturity", "coupon">>

\* the header test of lines 124-127, on rows[0].textContent?.toLowerCase() || ''
IsBondHeader(headerText) ==
  \E k \in 1..Len(HeaderKeywords) : Includes(headerText, HeaderKeywords[k])

\* a name test without the guard against a second header-like row
TableNameOk_NoHeaderGuard(name) ==
  /\ name # ""
  /\ Len(name) > 1
  /\ \/ HasDigit(name)
     \/ Includes(ToLowerCase(name), "year")
     \/ Includes(ToLowerCase(name), "month")
     \/ Includes(ToLowerCase(name), "gilt")
     \/ Includes(ToLowerCase(name), "treasury")
     \/ Includes(ToLowerCase(name), "bond")

\* the name test of lines 144-149
TableNameOk(name) ==
  /\ name # ""
  /\ Len(name) > 1
  /\ ~Includes(ToLowerCase(name), "name")
  /\ ~Includes(ToLowerCase(name), "security")
  /\ \/ HasDigit(name)
     \/ Includes(ToLowerCase(name), "year")
     \/ Includes(ToLowerCase(name), "month")
     \/ Includes(ToLowerCase(name), "gilt")
     \/ Includes(ToLowerCase(name), "treasury")
     \/ Includes(ToLowerCase(name), "bond")

\* the first row index (1-based) of the loop  for (let j = 1; j < rows.length; j++)
FirstDataRow == 2

\* the loop over rows[j], j from the 1-based index j on
RECURSIVE TableRows(_, _, _, _)
TableRows(rows, j, cn, at) ==
  IF j > Len(rows) THEN <<>>
  ELSE LET cells == rows[j].tdth
       IN  (IF Len(cells) >= 2 /\ TableNameOk(CellText(cells, 0))
            THEN <<RowBond(cells, cn, at)>> ELSE <<>>)
           \o TableRows(rows, j + 1, cn, at)

\* the loop  for (let i = 0; i < tables.length; i++)
RECURSIVE TableLoop(_, _, _, _)
TableLoop(tables, i, cn, at) ==
  IF i > Len(tables) THEN <<>>
  ELSE LET rows == tables[i]
       IN  (IF Len(rows) < 2 THEN <<>>
            ELSE IF IsBondHeader(ToLowerCase(rows[1].textContent))
            THEN TableRows(rows, FirstDataRow, cn, at)
            ELSE <<>>)
           \o TableLoop(tables, i + 1, cn, at)

Strategy1(doc, cn, at) == TableLoop(doc.tables, 1, cn, at)

(* Strategy 2: selectors *)

\* the name test of line 205
SelectorNameOk(name) ==
  /\ name # ""
  /\ Len(name) > 2
  /\ \E i \in 1..Len(name) : At(name, i) \in WordChar

\* rows.forEach((row, index) => ...) from the 1-based index j on
RECURSIVE SelectorRows(_, _, _, _)
SelectorRows(rows, j, cn, at) ==
  IF j > Len(rows) THEN <<>>
  ELSE LET cells == rows[j].cellLike
       IN  (IF j = 1 THEN <<>>
            ELSE IF Len(cells) >= 2 /\ SelectorNameOk(CellText(cells, 0))
            THEN <<RowBond(cells, cn, at)>> ELSE <<>>)
           \o SelectorRows(rows, j + 1, cn, at)

\* elements.forEach(element => ...)
RECURSIVE SelectorElements(_, _, _, _)
SelectorElements(elements, i, cn, at) ==
  IF i > Len(elements) THEN <<>>
  ELSE SelectorRows(elements[i], 1, cn, at) \o SelectorElements(elements, i + 1, cn, at)

\* for (const selector of bloombergSelectors)
RECURSIVE SelectorLoop(_, _, _, _)
SelectorLoop(selected, s, cn, at) ==
  IF s > NumSelectors THEN <<>>
  ELSE SelectorElements(selected[s], 1, cn, at) \o SelectorLoop(selected, s + 1, cn, at)

Strategy2(doc, cn, at) == SelectorLoop(doc.selected, 1, cn, at)

(* Strategy 3: text *)

\* s.split('\n')
RECURSIVE SplitLines(_)
SplitLines(s) ==
  LET breaks == {i \in 1..Len(s) : At(s, i) = "\n"}
  IN  IF breaks = {} THEN <<s>>
      ELSE <<SubSeq(s, 1, Min(breaks) - 1)>> \o SplitLines(Drop(s, Min(breaks)))

RECURSIVE TrimAll(_)
TrimAll(ls) == IF ls = <<>> THEN <<>> ELSE <<Trim(Head(ls))>> \o TrimAll(Tail(ls))

\* pageText.split('\n').map(line => line.trim()).filter(line => line.length > 0)
PageLines(pageText) ==
  SelectSeq(TrimAll(SplitLines(pageText)), LAMBDA l : Len(l) > 0)

\* bondKeywords[countryName] || ['bond', 'treasury']
Keywords(cn) ==
  CASE cn = "United States"  -> <<"treasury", "bond", "note", "bill">>
    [] cn = "United Kingdom" -> <<"gilt", "treasury", "bond">>
    [] cn = "Germany"        -> <<"bund", "bobl", "schatz", "treasury">>
    [] cn = "Japan"          -> <<"bond", "treasury", "jgb">>
    [] cn = "Australia"      -> <<"bond", "treasury", "agb">>
    [] OTHER                 -> <<"bond", "treasury">>

\* s.match(/\d+\.\d{1,4}/g) || []  : the matches, leftmost first, each greedy
RECURSIVE MatchDecimals(_)
MatchDecimals(s) ==
  LET starts == {i \in 1..Len(s) : At(s, i) \in Digit}
  IN  IF starts = {} THEN <<>>
      ELSE LET u == Drop(s, Min(starts) - 1)
               ip == DigitPrefixLen(u)
               rest == Drop(u, ip)
               fp == IF StartsWith(rest, ".") THEN DigitPrefixLen(Drop(rest, 1)) ELSE 0
               take == IF fp > 4 THEN 4 ELSE fp
           IN  IF fp = 0 THEN MatchDecimals(rest)
               ELSE <<SubSeq(u, 1, ip + 1 + take)>> \o MatchDecimals(Drop(u, ip + 1 + take))

\* lines.join(' ')
RECURSIVE JoinSpace(_)
JoinSpace(ls) ==
  IF ls = <<>> THEN ""
  ELSE IF Len(ls) = 1 THEN ls[1]
  ELSE ls[1] \o " " \o JoinSpace(Tail(ls))

\* lines.slice(Math.max(0, i-1), i + 3) for the 1-based line index i
ContextWindow(lines, i) ==
  SubSeq(lines, IF i - 1 < 1 THEN 1 ELSE i - 1, IF i + 2 > Len(lines) THEN Len(lines) ELSE i + 2)

\* parseFloat(numbers[k]) || null   (k counted from 0; numbers[k] may be undefined)
TokenField(numbers, k) ==
  LET n == IF k + 1 <= Len(numbers) THEN parseFloat(numbers[k + 1]) ELSE NaN
  IN  IF isNaN(n) \/ (n.kind = "finite" /\ n.mant = 0) THEN null ELSE n

\* the condition of line 249
IsCandidateLine(line, cn) ==
  LET hasKeyword == \E k \in 1..Len(Keywords(cn)) :
                       Includes(ToLowerCase(line), Keywords(cn)[k])
      hasNumbers == MatchDecimals(line) # <<>>
      hasPercent == Includes(line, "%")
  IN  (hasKeyword \/ hasPercent) /\ hasNumbers /\ Len(line) > 5

\* for (let i = 0; i < lines.length; i++) from the 1-based index i on
RECURSIVE TextLoop(_, _, _, _)
TextLoop(lines, i, cn, at) ==
  IF i > Len(lines) THEN <<>>
  ELSE LET line == lines[i]
           numbers == MatchDecimals(JoinSpace(ContextWindow(lines, i)))
       IN  (IF IsCandidateLine(line, cn) /\ Len(numbers) >= 1
            THEN <<Bond(cn, line, TokenField(numbers, 0), TokenField(numbers, 1),
                        TokenField(numbers, 2), TokenField(numbers, 3),
                        TokenField(numbers, 4), at)>>
            ELSE <<>>)
           \o TextLoop(lines, i + 1, cn, at)

Strategy3(doc, cn, at) == TextLoop(PageLines(doc.innerText), 1, cn, at)

(* The page.evaluate callback *)

\* a callback that runs Strategy 2 unconditionally
TrySelectors_Always(b) == TRUE

\* if (bonds.length === 0), line 168
TrySelectors(b) == Len(b) = 0

\* if (bonds.length === 0), line 224
TryText(b) == Len(b) = 0

\* the callback after Strategy 1
AfterTables(doc, cn, at) ==
  [bonds |-> Strategy1(doc, cn, at), strategies |-> <<"table">>]

\* the callback after the block of Strategy 2, entered from r
AfterSelectors(r, doc, cn, at) ==
  IF TrySelectors(r.bonds)
  THEN [bonds |-> r.bonds \o Strategy2(doc, cn, at),
        strategies |-> Append(r.strategies, "selector")]
  ELSE r

\* the callback after the block of Strategy 3, entered from r
AfterText(r, doc, cn, at) ==
  IF TryText(r.bonds)
  THEN [bonds |-> r.bonds \o Strategy3(doc, cn, at),
        strategies |-> Append(r.strategies, "text")]
  ELSE r

\* the callback: the bonds it returns and the strategies it ran, in order
Evaluate(doc, cn, at) ==
  AfterText(AfterSelectors(AfterTables(doc, cn, at), doc, cn, at), doc, cn, at)

-----------------------------------------------------------------------------
(* scraper.ts: configuration, the result filter *)

COUNTRIES ==
  << [name |-> "United States",
      url |-> "https://www.bloomberg.com/markets/rates-bonds/government-bonds/us",
      code |-> "US"],
     [name |-> "United Kingdom",
      url |-> "https://www.bloomberg.com/markets/rates-bonds/government-bonds/uk",
      code |-> "UK"],
     [name |-> "Germany",
      url |-> "https://www.bloomberg.com/markets/rates-bonds/government-bonds/germany",
      code |-> "DE"],
     [name |-> "Japan",
      url |-> "https://www.bloomberg.com/markets/rates-bonds/government-bonds/japan",
      code |-> "JP"],
     [name |-> "Australia",
      url |-> "https://www.bloomberg.com/markets/rates-bonds/government-bonds/australia",
      code |-> "AU"] >>

\* a filter whose exclusions are case-sensitive
KeepBond_CaseSensitive(bond) ==
  /\ Includes(bond.name, "10 Year")
  /\ ~Includes(bond.name, "muni")
  /\ ~Includes(bond.name, "inflation")
  /\ ~Includes(bond.name, "II")

\* the predicate of allResults.filter in main
KeepBond(bond) ==
  /\ Includes(bond.name, "10 Year")
  /\ ~Includes(ToLowerCase(bond.name), "muni")
  /\ ~Includes(ToLowerCase(bond.name), "inflation")
  /\ ~Includes(bond.name, "II")

\* Array.prototype.filter with that predicate
RECURSIVE FilterTenYear(_)
FilterTenYear(arr) ==
  IF arr = <<>> THEN <<>>
  ELSE (IF KeepBond(Head(arr)) THEN <<Head(arr)>> ELSE <<>>) \o FilterTenYear(Tail(arr))

\* allData.unshift(...countryData)
PushAll_Prepend(arr, items) == items \o arr

\* allData.push(...countryData)
PushAll(arr, items) == arr \o items

-----------------------------------------------------------------------------
(* Documents the site may render *)

HeaderRow == Row("Name Coupon Price Yield", <<"Name", "Coupon", "Price", "Yield">>, <<>>)

\* a row of <td> cells: the cells answer both cell selectors
DataRow(cells) == Row(JoinSpace(cells), cells, cells)

\* a classifiable table that is also matched by '.data-table', over a text body
DocMixed ==
  Doc(<< <<HeaderRow,
           DataRow(<<"US 10 Year", "4.25%", "98.50", "4.40%">>),
           DataRow(<<"US 10 Year II", "--", "1,001.5", "N/A", "0.00", "-0.3">>)>> >>,
      [NoSelected EXCEPT ![2] =
         << <<HeaderRow, DataRow(<<"US 10 Year", "4.25%", "98.50", "4.40%">>)>> >>],
      "Treasury bond 4.25% 98.50")

\* no classifiable table; one grid matched by two selectors
DocSelector ==
  Doc(<< <<Row("Rates", <<"Rates">>, <<>>), DataRow(<<"10 Year", "1.0">>)>> >>,
      [NoSelected EXCEPT
         ![1] = << <<DataRow(<<"Bond", "Rate">>),
                     DataRow(<<"UK 10 Year Gilt", "4.10%", "99.80">>)>> >>,
         ![9] = << <<DataRow(<<"Bond", "Rate">>),
                     DataRow(<<"UK 10 Year Gilt", "4.10%", "99.80">>)>> >>],
      "UK 10 Year Gilt 4.10% 99.80")

\* text only
DocText ==
  Doc(<<>>, NoSelected,
      "Rates\nUK 10 Year Gilt 4.10% 99.80\n0.00%\nMuni 10 Year bond 3.5\n")

\* what the page of the i-th country may render: two layouts per country, so that
\* every strategy is the deciding one for some country
Rendered(i) ==
  CASE i = 1 -> {DocMixed, BlankDocument}
    [] i = 2 -> {DocSelector, DocText}
    [] i = 3 -> {DocText, BlankDocument}
    [] i = 4 -> {DocMixed, DocSelector}
    [] OTHER -> {DocSelector, BlankDocument}

-----------------------------------------------------------------------------
(* scraper.ts: main, scrapeAllCountries, scrapeCountryBonds *)

N == Len(COUNTRIES)

progVars == <<idx, browser, pages, document, countryData, allData, results, now,
              thrown, inTry, served, returned, strategies, countryName, bonds>>
parseVars == <<text, num>>
routeVars == <<data, response>>

ScraperIdle ==
  /\ idx = 1
  /\ browser = "none"
  /\ pages = [k \in 1..N |-> "none"]
  /\ document = BlankDocument
  /\ countryData = <<>>
  /\ allData = <<>>
  /\ results = <<>>
  /\ now = 0
  /\ thrown = ""
  /\ inTry = ""
  /\ served = [k \in 1..N |-> <<>>]
  /\ returned = [k \in 1..N |-> <<>>]
  /\ strategies = <<>>
  /\ countryName = ""
  /\ bonds = <<>>

ParseIdle == text = "" /\ num = null

RouteIdle == data = <<>> /\ response = 0

Init == pc = "main" /\ ScraperIdle /\ ParseIdle /\ RouteIdle

\* const browser = await puppeteer.launch(...)
Launch ==
  /\ pc = "main"
  /\ \/ browser' = "open" /\ pc' = "newPage" /\ UNCHANGED thrown
     \/ thrown' = "launch" /\ pc' = "rejected" /\ UNCHANGED browser
  /\ UNCHANGED <<idx, pages, document, countryData, allData, results, now, inTry,
                 served, returned, strategies, countryName, bonds>>
  /\ UNCHANGED <<parseVars, routeVars>>

\* const page = await browser.newPage(), before the try block
NewPage ==
  /\ pc = "newPage"
  /\ \/ pages' = [pages EXCEPT ![idx] = "open"] /\ pc' = "setUserAgent"
        /\ UNCHANGED thrown
     \/ thrown' = "newPage" /\ pc' = "rejected" /\ UNCHANGED pages
  /\ inTry' = ""
  /\ UNCHANGED <<idx, browser, document, countryData, allData, results, now,
                 served, returned, strategies, countryName, bonds>>
  /\ UNCHANGED <<parseVars, routeVars>>

\* an awaited call on the page before the try block: a rejection leaves the function
Setup(here, next) ==
  /\ pc = here
  /\ \/ pc' = next /\ UNCHANGED thrown
     \/ thrown' = here /\ pc' = "rejected"
  /\ UNCHANGED <<idx, browser, pages, document, countryData, allData, results, now,
                 inTry, served, returned, strategies, countryName, bonds>>
  /\ UNCHANGED <<parseVars, routeVars>>

SetUserAgent == Setup("setUserAgent", "setViewport")
SetViewport == Setup("setViewport", "setExtraHTTPHeaders")
SetExtraHTTPHeaders == Setup("setExtraHTTPHeaders", "goto")

\* await page.goto(country.url, ...): the site renders some document, or the
\* navigation times out / fails and control goes to the catch block
Goto ==
  /\ pc = "goto"
  /\ \/ \E d \in Rendered(idx) : document' = d /\ pc' = "waitForTimeout" /\ UNCHANGED inTry
     \/ inTry' = "goto" /\ pc' = "catch" /\ UNCHANGED document
  /\ UNCHANGED <<idx, browser, pages, countryData, allData, results, now, thrown,
                 served, returned, strategies, countryName, bonds>>
  /\ UNCHANGED <<parseVars, routeVars>>

\* await page.waitForTimeout(8000)
WaitForTimeout ==
  /\ pc = "waitForTimeout"
  /\ \/ pc' = "waitForSelector" /\ UNCHANGED inTry
     \/ inTry' = "waitForTimeout" /\ pc' = "catch"
  /\ UNCHANGED <<idx, browser, pages, document, countryData, allData, results, now,
                 thrown, served, returned, strategies, countryName, bonds>>
  /\ UNCHANGED <<parseVars, routeVars>>

\* await page.waitForSelector(...) in its own try/catch: found or not, go on
WaitForSelector ==
  /\ pc = "waitForSelector"
  /\ pc' = "evaluate"
  /\ UNCHANGED progVars
  /\ UNCHANGED <<parseVars, routeVars>>

\* const data = await page.evaluate(callback, country.name)
EvaluatePage ==
  /\ pc = "evaluate"
  /\ \/ \E r \in {Evaluate(document, COUNTRIES[idx].name, now)} :
            /\ bonds' = r.bonds
            /\ strategies' = r.strategies
            /\ countryName' = COUNTRIES[idx].name
            /\ served' = [served EXCEPT ![idx] = <<document>>]
            /\ now' = now + 1
            /\ pc' = "close"
            /\ UNCHANGED inTry
     \/ /\ inTry' = "evaluate" /\ pc' = "catch"
        /\ UNCHANGED <<bonds, strategies, countryName, served, now>>
  /\ UNCHANGED <<idx, browser, pages, document, countryData, allData, results, thrown,
                 returned>>
  /\ UNCHANGED <<parseVars, routeVars>>

\* await page.close(); return data;   (a rejected close may or may not have
\* closed the page)
PageClose ==
  /\ pc = "close"
  /\ \/ /\ pages' = [pages EXCEPT ![idx] = "closed"]
        /\ countryData' = bonds
        /\ returned' = [returned EXCEPT ![idx] = bonds]
        /\ pc' = "push"
        /\ UNCHANGED inTry
     \/ /\ \E st \in {"open", "closed"} : pages' = [pages EXCEPT ![idx] = st]
        /\ inTry' = "close" /\ pc' = "catch"
        /\ UNCHANGED <<countryData, returned>>
  /\ UNCHANGED <<idx, browser, document, allData, results, now, thrown, served,
                 strategies, countryName, bonds>>
  /\ UNCHANGED <<parseVars, routeVars>>

\* catch (error) { return []; }  : a catch block that forgets the page
CatchPageClose_NoClose ==
  /\ pc = "catch"
  /\ countryData' = <<>>
  /\ returned' = [returned EXCEPT ![idx] = <<>>]
  /\ pc' = "push"
  /\ UNCHANGED <<idx, browser, pages, document, allData, results, now, thrown, inTry,
                 served, strategies, countryName, bonds>>
  /\ UNCHANGED <<parseVars, routeVars>>

\* catch (error) { await page.close(); return []; }
CatchPageClose ==
  /\ pc = "catch"
  /\ \/ /\ pages' = [pages EXCEPT ![idx] = "closed"]
        /\ countryData' = <<>>
        /\ returned' = [returned EXCEPT ![idx] = <<>>]
        /\ pc' = "push"
        /\ UNCHANGED thrown
     \/ /\ \E st \in {"open", "closed"} : pages' = [pages EXCEPT ![idx] = st]
        /\ thrown' = "catch" /\ pc' = "rejected"
        /\ UNCHANGED <<countryData, returned>>
  /\ UNCHANGED <<idx, browser, document, allData, results, now, inTry, served,
                 strategies, countryName, bonds>>
  /\ UNCHANGED <<parseVars, routeVars>>

\* allData.push(...countryData)
Push ==
  /\ pc = "push"
  /\ allData' = PushAll(allData, countryData)
  /\ pc' = "delay"
  /\ UNCHANGED <<idx, browser, pages, document, countryData, results, now, thrown,
                 inTry, served, returned, strategies, countryName, bonds>>
  /\ UNCHANGED <<parseVars, routeVars>>

\* await new Promise(resolve => setTimeout(resolve, 2000)); next country or loop exit
Delay ==
  /\ pc = "delay"
  /\ idx' = idx + 1
  /\ pc' = IF idx + 1 <= N THEN "newPage" ELSE "browserClose"
  /\ UNCHANGED <<browser, pages, document, countryData, allData, results, now, thrown,
                 inTry, served, returned, strategies, countryName, bonds>>
  /\ UNCHANGED <<parseVars, routeVars>>

\* await browser.close(); return allData;
BrowserClose ==
  /\ pc = "browserClose"
  /\ \/ browser' = "closed" /\ pc' = "filter" /\ UNCHANGED thrown
     \/ thrown' = "browserClose" /\ pc' = "rejected" /\ UNCHANGED browser
  /\ UNCHANGED <<idx, pages, document, countryData, allData, results, now, inTry,
                 served, returned, strategies, countryName, bonds>>
  /\ UNCHANGED <<parseVars, routeVars>>

\* const results = allResults.filter(...)
MainFilter ==
  /\ pc = "filter"
  /\ results' = FilterTenYear(allData)
  /\ pc' = "write"
  /\ UNCHANGED <<idx, browser, pages, document, countryData, allData, now, thrown,
                 inTry, served, returned, strategies, countryName, bonds>>
  /\ UNCHANGED <<parseVars, routeVars>>

\* fs.writeFileSync(filename, JSON.stringify(results, null, 2))
WriteFile ==
  /\ pc = "write"
  /\ \/ pc' = "done" /\ UNCHANGED thrown
     \/ thrown' = "write" /\ pc' = "rejected"
  /\ UNCHANGED <<idx, browser, pages, document, countryData, allData, results, now,
                 inTry, served, returned, strategies, countryName, bonds>>
  /\ UNCHANGED <<parseVars, routeVars>>

\* main().catch(() => process.exit(1))
MainCatch ==
  /\ pc = "rejected"
  /\ pc' = "exit1"
  /\ UNCHANGED progVars
  /\ UNCHANGED <<parseVars, routeVars>>

Next ==
  \/ Launch \/ NewPage \/ SetUserAgent \/ SetViewport \/ SetExtraHTTPHeaders
  \/ Goto \/ WaitForTimeout \/ WaitForSelector \/ EvaluatePage
  \/ PageClose \/ CatchPageClose \/ Push \/ Delay \/ BrowserClose
  \/ MainFilter \/ WriteFile \/ MainCatch

Spec == Init /\ [][Next]_vars

-----------------------------------------------------------------------------
(* parseNumeric on its own: the argument is drawn from the texts made of at  *)
(* most MaxParts cell fragments                                              *)

MaxParts == 3

CellFragments ==
  {"", " ", "--", "N/A", "1", "0", "234", ".", "5", ",", "%", "$", "£", "abc", "-",
   "Infinity", "e3", "e999"}

RECURSIVE CellTexts(_)
CellTexts(n) ==
  IF n = 0 THEN {""}
  ELSE {a \o b : a \in CellFragments, b \in CellTexts(n - 1)}

InitParseNumeric ==
  /\ pc = "parseNumeric"
  /\ text \in CellTexts(MaxParts)
  /\ num = null
  /\ ScraperIdle /\ RouteIdle

CallParseNumeric ==
  /\ pc = "parseNumeric"
  /\ num' = parseNumeric(text)
  /\ pc' = "parsed"
  /\ UNCHANGED <<text, progVars, routeVars>>

SpecParseNumeric == InitParseNumeric /\ [][CallParseNumeric]_vars

-----------------------------------------------------------------------------
(* Strategy 1 on its own: the document holds one table made of a header and  *)
(* at most MaxRows rows, optionally followed by a second table               *)

MaxRows == 2

HeaderPool ==
  {HeaderRow,
   Row("GILT  YIELD", <<"GILT", "YIELD">>, <<>>),
   Row("Rates Today", <<"Rates", "Today">>, <<>>)}

RowPool ==
  {DataRow(<<"US 10 Year", "4.25%", "98.50", "4.40%">>),
   DataRow(<<" Security A1 ", "1.0">>),
   DataRow(<<"7", "2.0">>),
   DataRow(<<"Bond", "--", "N/A", "", "0.00", "1,001.5", "9.9">>),
   DataRow(<<"ab", "3.0">>),
   DataRow(<<"US 5 Year">>)}

RECURSIVE RowLists(_)
RowLists(n) ==
  IF n = 0 THEN {<<>>}
  ELSE RowLists(n - 1) \cup {<<r>> \o rs : r \in RowPool, rs \in RowLists(n - 1)}

SecondTables ==
  {<<>>,
   << <<HeaderRow, DataRow(<<"US 10 Year", "4.25%", "98.50", "4.40%">>)>> >>,
   << <<Row("Treasury", <<"Treasury">>, <<>>)>> >>}

TableDocuments ==
  {Doc(<< <<h>> \o rs >> \o t2, NoSelected, "") :
     h \in HeaderPool, rs \in RowLists(MaxRows), t2 \in SecondTables}

InitStrategy1 ==
  /\ pc = "strategy1"
  /\ idx = 1
  /\ browser = "none"
  /\ pages = [k \in 1..N |-> "none"]
  /\ document \in TableDocuments
  /\ countryData = <<>>
  /\ allData = <<>>
  /\ results = <<>>
  /\ now = 0
  /\ thrown = ""
  /\ inTry = ""
  /\ served = [k \in 1..N |-> <<>>]
  /\ returned = [k \in 1..N |-> <<>>]
  /\ strategies = <<>>
  /\ countryName = "United States"
  /\ bonds = <<>>
  /\ ParseIdle /\ RouteIdle

RunStrategy1 ==
  /\ pc = "strategy1"
  /\ bonds' = Strategy1(document, countryName, now)
  /\ pc' = "extracted1"
  /\ UNCHANGED <<idx, browser, pages, document, countryData, allData, results, now,
                 thrown, inTry, served, returned, strategies, countryName>>
  /\ UNCHANGED <<parseVars, routeVars>>

SpecStrategy1 == InitStrategy1 /\ [][RunStrategy1]_vars

-----------------------------------------------------------------------------
(* Strategy 3 on its own: the page text is made of at most MaxLines lines    *)

MaxLines == 4

LinePool ==
  {"UK 10 Year Gilt 4.10% 99.80", "0.00", "Treasury 0.00% 1.5", "abc", "  3.75% ",
   "1.2 2.3 3.4 4.5 5.6 6.7", ""}

RECURSIVE PageTexts(_)
PageTexts(n) ==
  IF n = 0 THEN {""}
  ELSE PageTexts(n - 1) \cup {l \o "\n" \o t : l \in LinePool, t \in PageTexts(n - 1)}

InitStrategy3 ==
  /\ pc = "strategy3"
  /\ idx = 1
  /\ browser = "none"
  /\ pages = [k \in 1..N |-> "none"]
  /\ document \in {Doc(<<>>, NoSelected, t) : t \in PageTexts(MaxLines)}
  /\ countryData = <<>>
  /\ allData = <<>>
  /\ results = <<>>
  /\ now = 0
  /\ thrown = ""
  /\ inTry = ""
  /\ served = [k \in 1..N |-> <<>>]
  /\ returned = [k \in 1..N |-> <<>>]
  /\ strategies = <<>>
  /\ countryName \in {"United Kingdom", "France"}
  /\ bonds = <<>>
  /\ ParseIdle /\ RouteIdle

RunStrategy3 ==
  /\ pc = "strategy3"
  /\ bonds' = Strategy3(document, countryName, now)
  /\ pc' = "extracted3"
  /\ UNCHANGED <<idx, browser, pages, document, countryData, allData, results, now,
                 thrown, inTry, served, returned, strategies, countryName>>
  /\ UNCHANGED <<parseVars, routeVars>>

SpecStrategy3 == InitStrategy3 /\ [][RunStrategy3]_vars

-----------------------------------------------------------------------------
(* main's filter on its own: allResults holds at most MaxResults records     *)

MaxResults == 3

NamePool ==
  {"US 10 Year", "US 10 year", "US 10 Year TIPS (Inflation)", "UK Muni 10 Year",
   "US 10 Year II", "10 Year MUNI", "UK 10 Year Gilt 4.10% 99.80", "US 2 Year",
   "10 Year I", "INFLATION 10 Year"}

RECURSIVE ResultLists(_)
ResultLists(n) ==
  IF n = 0 THEN {<<>>}
  ELSE ResultLists(n - 1)
       \cup {<<Bond("United States", nm, null, null, null, null, null, 0)>> \o rs :
               nm \in NamePool, rs \in ResultLists(n - 1)}

InitFilter ==
  /\ pc = "filter"
  /\ idx = N + 1
  /\ browser = "closed"
  /\ pages = [k \in 1..N |-> "closed"]
  /\ document = BlankDocument
  /\ countryData = <<>>
  /\ allData \in ResultLists(MaxResults)
  /\ results = <<>>
  /\ now = 0
  /\ thrown = ""
  /\ inTry = ""
  /\ served = [k \in 1..N |-> <<>>]
  /\ returned = [k \in 1..N |-> <<>>]
  /\ strategies = <<>>
  /\ countryName = ""
  /\ bonds = <<>>
  /\ ParseIdle /\ RouteIdle

SpecFilter == InitFilter /\ [][MainFilter \/ WriteFile \/ MainCatch]_vars

-----------------------------------------------------------------------------
(* route.ts: the in-memory store and its four handlers.                      *)
(* A value that may be missing (a query parameter, a body field, a           *)
(* timestamp) is <<>> when missing and <<v>> when present.                   *)

MaxItems == 3
MaxClock == 4

Item(id, name, description, createdAt, updatedAt) ==
  [id |-> id, name |-> name, description |-> description,
   createdAt |-> createdAt, updatedAt |-> updatedAt]

\* let data = [...]
InitialData ==
  << Item(1, "Item 1", "First item", <<>>, <<>>),
     Item(2, "Item 2", "Second item", <<>>, <<>>) >>

HexDigits == "0123456789abcdef"

RECURSIVE HexPrefixLen(_)
HexPrefixLen(s) ==
  IF s # "" /\ Includes(HexDigits, ToLowerChar(At(s, 1)))
  THEN 1 + HexPrefixLen(Drop(s, 1)) ELSE 0

RECURSIVE HexToNat(_)
HexToNat(s) ==
  IF s = "" THEN 0
  ELSE 16 * HexToNat(SubSeq(s, 1, Len(s) - 1))
       + (CHOOSE d \in 0..15 : At(HexDigits, d + 1) = ToLowerChar(At(s, Len(s))))

\* the global parseInt without a radix: [nan, value]
parseInt(s) ==
  LET t == TrimStart(s)
      signed == t # "" /\ At(t, 1) \in {"+", "-"}
      u == IF signed THEN Drop(t, 1) ELSE t
      hex == StartsWith(u, "0x") \/ StartsWith(u, "0X")
      k == IF hex THEN HexPrefixLen(Drop(u, 2)) ELSE DigitPrefixLen(u)
      v == IF hex THEN HexToNat(SubSeq(u, 3, 2 + k)) ELSE DigitsToNat(SubSeq(u, 1, k))
  IN  IF k = 0 THEN [nan |-> TRUE, value |-> 0]
      ELSE [nan |-> FALSE, value |-> IF signed /\ At(t, 1) = "-" THEN 0 - v ELSE v]

\* !v  for a string that may be missing
Falsy(v) == v = <<>> \/ v[1] = ""

\* data.findIndex(item => item.id === parseInt(id)); 0 stands for -1
FindIndex(arr, id) ==
  LET n == parseInt(id)
      hits == {i \in 1..Len(arr) : ~n.nan /\ arr[i].id = n.value}
  IN  IF hits = {} THEN 0 ELSE Min(hits)

\* arr.splice(i, 1) leaves arr without its i-th element
Splice(arr, i) == SubSeq(arr, 1, i - 1) \o SubSeq(arr, i + 1, Len(arr))

\* the id of the item POST creates
NewId(arr) == Len(arr) + 1

\* the id of a request: the query parameter of GET and DELETE, the body field of PUT
RequestIds == {<<>>, <<"">>, <<"1">>, <<"2">>, <<"3">>, <<"4">>, <<"x">>}
BodyNames == {<<>>, <<"">>, <<"A">>}
BodyDescriptions == {<<>>, <<"d">>}

InitRoute ==
  /\ pc = "route"
  /\ data = InitialData
  /\ response = 0
  /\ ScraperIdle /\ ParseIdle

routeFrame == <<pc, idx, browser, pages, document, countryData, allData, results,
                thrown, inTry, served, returned, strategies, countryName, bonds,
                text, num>>

GET ==
  /\ pc = "route"
  /\ \E id \in RequestIds :
       response' = IF ~Falsy(id) /\ FindIndex(data, id[1]) = 0 THEN 404 ELSE 200
  /\ UNCHANGED <<data, now, routeFrame>>

POST ==
  /\ pc = "route"
  /\ Len(data) < MaxItems
  /\ now < MaxClock
  /\ \/ response' = 500 /\ UNCHANGED <<data, now>>
     \/ \E name \in BodyNames, description \in BodyDescriptions :
          IF Falsy(name) \/ Falsy(description)
          THEN response' = 400 /\ UNCHANGED <<data, now>>
          ELSE /\ data' = Append(data, Item(NewId(data), name[1], description[1],
                                            <<now>>, <<>>))
               /\ now' = now + 1
               /\ response' = 201
  /\ UNCHANGED routeFrame

PUT ==
  /\ pc = "route"
  /\ now < MaxClock
  /\ \/ response' = 500 /\ UNCHANGED <<data, now>>
     \/ \E id \in RequestIds, name \in BodyNames, description \in BodyDescriptions :
          IF Falsy(id) THEN response' = 400 /\ UNCHANGED <<data, now>>
          ELSE IF FindIndex(data, id[1]) = 0
          THEN response' = 404 /\ UNCHANGED <<data, now>>
          ELSE \E i \in {FindIndex(data, id[1])} :
                 /\ data' = [data EXCEPT ![i] =
                      Item(data[i].id,
                           IF Falsy(name) THEN data[i].name ELSE name[1],
                           IF Falsy(description) THEN data[i].description
                           ELSE description[1],
                           data[i].createdAt, <<now>>)]
                 /\ now' = now + 1
                 /\ response' = 200
  /\ UNCHANGED routeFrame

DELETE ==
  /\ pc = "route"
  /\ \E id \in RequestIds :
       IF Falsy(id) THEN response' = 400 /\ UNCHANGED data
       ELSE IF FindIndex(data, id[1]) = 0 THEN response' = 404 /\ UNCHANGED data
       ELSE data' = Splice(data, FindIndex(data, id[1])) /\ response' = 200
  /\ UNCHANGED <<now, routeFrame>>

SpecRoute == InitRoute /\ [][GET \/ POST \/ PUT \/ DELETE]_vars

-----------------------------------------------------------------------------
(* Properties *)

ToUpperChar(c) ==
  IF \E i \in 1..26 : At(LowerCase, i) = c
  THEN At(UpperCase, CHOOSE i \in 1..26 : At(LowerCase, i) = c)
  ELSE c

\* s contains the lower-case word w with each letter in either case
ContainsAnyCase(s, w) ==
  \E i \in 0..(Len(s) - Len(w)) :
    \A k \in 1..Len(w) : At(s, i + k) \in {At(w, k), ToUpperChar(At(w, k))}

\* C1: the page.evaluate callback tries table, then selector, then text; a later
\* strategy runs only if every earlier one produced no record, and the list it
\* returns is the output of exactly one strategy, the last one it ran.
C1_FallbackOrder ==
  pc = "close" =>
    \E s1 \in {Strategy1(document, countryName, now - 1)},
       s2 \in {Strategy2(document, countryName, now - 1)},
       s3 \in {Strategy3(document, countryName, now - 1)} :
      \/ strategies = <<"table">> /\ s1 # <<>> /\ bonds = s1
      \/ strategies = <<"table", "selector">> /\ s1 = <<>> /\ s2 # <<>> /\ bonds = s2
      \/ strategies = <<"table", "selector", "text">> /\ s1 = <<>> /\ s2 = <<>>
         /\ bonds = s3

\* the table strategy produced records on a page where the selector strategy and
\* the text strategy would have produced records too, and neither ran
C1_TableWinsWitness ==
  /\ pc = "close"
  /\ strategies = <<"table">>
  /\ bonds # <<>>
  /\ Strategy2(document, countryName, now - 1) # <<>>
  /\ Strategy3(document, countryName, now - 1) # <<>>

TopLevelSteps == {"launch", "browserClose", "write"}

\* C2: a failure at any step of one country (page creation, header setup,
\* navigation, settle wait, evaluation, page close) never makes scrapeAllCountries
\* reject: only a top-level failure ends the run, and the failed country
\* contributes no record.
C2_CountryFailureNeverAborts ==
  /\ pc = "rejected" => thrown \in TopLevelSteps
  /\ pc = "push" /\ inTry # "" => countryData = <<>>

\* the countries whose records allData.push has taken
Pushed == IF pc = "delay" THEN idx ELSE idx - 1

RECURSIVE ConcatReturned(_)
ConcatReturned(n) ==
  IF n = 0 THEN <<>> ELSE ConcatReturned(n - 1) \o returned[n]

RECURSIVE SumReturned(_)
SumReturned(n) ==
  IF n = 0 THEN 0 ELSE SumReturned(n - 1) + Len(returned[n])

YieldsNothing(doc, cn) ==
  /\ Strategy1(doc, cn, 0) = <<>>
  /\ Strategy2(doc, cn, 0) = <<>>
  /\ Strategy3(doc, cn, 0) = <<>>

\* C4: allData is the concatenation, in COUNTRIES order, of the lists
\* scrapeCountryBonds returned; every record carries the name of the country whose
\* page produced it; a country whose page yields nothing under all three
\* strategies contributes no record (stated where the country's list is handed
\* to the loop); the length is the sum of the lengths.
C4_AggregateIsConcatenation ==
  /\ allData = ConcatReturned(Pushed)
  /\ Len(allData) = SumReturned(Pushed)
  /\ \A k \in 1..N : \A i \in 1..Len(returned[k]) :
       returned[k][i].country = COUNTRIES[k].name
  /\ pc = "push" /\ served[idx] # <<>>
       /\ YieldsNothing(served[idx][1], COUNTRIES[idx].name)
     => returned[idx] = <<>> /\ countryData = <<>>

\* the run returned: the first and fourth country contributed records, the third
\* one's page yielded nothing
C4_Witness ==
  /\ pc = "filter"
  /\ returned[1] # <<>>
  /\ served[3] = <<BlankDocument>>
  /\ returned[3] = <<>>
  /\ returned[4] # <<>>
  /\ Len(allData) = Len(returned[1]) + Len(returned[2]) + Len(returned[4])
                    + Len(returned[5])

\* C5: at most one page is open at any moment, and the page of country k+1 is
\* opened only after the page of country k was closed.
C5_OnePageAtATime ==
  /\ Cardinality({k \in 1..N : pages[k] = "open"}) <= 1
  /\ \A k \in 1..(N - 1) : pages[k + 1] # "none" => pages[k] = "closed"

\* the second country's page is open after the first country failed before its
\* evaluation and had its page closed by the catch block
C5_Witness ==
  /\ pages[2] = "open"
  /\ pages[1] = "closed"
  /\ served[1] = <<>>

\* C9: when scrapeAllCountries has finished, by returning or by throwing, no page
\* and no browser is left open.
C9_NothingLeftOpen ==
  (pc = "filter" \/ (pc = "rejected" /\ thrown # "write")) =>
    /\ browser # "open"
    /\ \A k \in 1..N : pages[k] # "open"

\* the claim's reading of one kept record
ClaimKeeps(name) ==
  /\ Includes(name, "10 Year")
  /\ ~ContainsAnyCase(name, "muni")
  /\ ~ContainsAnyCase(name, "inflation")
  /\ ~Includes(name, "II")

\* C3: the filter keeps a record iff its name contains "10 Year", contains neither
\* "muni" nor "inflation" in any letter case, and does not contain "II"; the kept
\* records keep their order, none is added, changed or dropped as a duplicate, and
\* filtering the output again changes nothing.
C3_FilterKeepsTenYear ==
  pc # "filter" =>
    /\ results = SelectSeq(allData, LAMBDA b : ClaimKeeps(b.name))
    /\ FilterTenYear(results) = results

\* a duplicate pair was kept and a record in mixed case was dropped
C3_Witness ==
  /\ pc = "write"
  /\ Len(allData) = 3
  /\ Len(results) = 2
  /\ results[1] = results[2]
  /\ \E i \in 1..3 : ContainsAnyCase(allData[i].name, "muni")
                     /\ ~Includes(allData[i].name, "muni")

CurrencyAndSeparators == {",", "%", "$", "£", "€", "¥"}

\* r is, as a whole, a decimal literal: sign, digits with at most one point and at
\* least one digit, optional exponent, and nothing else
ClaimWellFormed(r) ==
  LET signed == r # "" /\ At(r, 1) \in {"+", "-"}
      u == IF signed THEN Drop(r, 1) ELSE r
      ip == DigitPrefixLen(u)
      hasDot == Len(u) > ip /\ At(u, ip + 1) = "."
      fp == IF hasDot THEN DigitPrefixLen(Drop(u, ip + 1)) ELSE 0
      mantLen == ip + (IF hasDot THEN 1 + fp ELSE 0)
  IN  ip + fp >= 1 /\ mantLen + ExponentPart(Drop(u, mantLen))[1] = Len(u)

\* C6: parseNumeric is absent on empty, blank, "--" and "N/A"; otherwise it is the
\* value of the text left after removing , % $ and the currency glyphs and
\* trimming, absent whenever that text is not a well-formed decimal number; the
\* result is never NaN and never non-finite.
C6_ParseNumericStrict ==
  pc = "parsed" =>
    /\ IF text = "" \/ Trim(text) = "" \/ text \in {"--", "N/A"}
       THEN num = null
       ELSE \E r \in {Trim(RemoveChars(text, CurrencyAndSeparators))} :
              IF ClaimWellFormed(r) THEN num = parseFloat(r) ELSE num = null
    /\ num.kind \in {"null", "finite"}

\* the qualifying lines of the page text
Qualifying(lines) ==
  {i \in 1..Len(lines) : IsCandidateLine(lines[i], countryName)}

\* the line before, the line itself and the two lines after, clipped
ClaimWindow(lines, i) ==
  SelectSeq(<<i - 1, i, i + 1, i + 2>>, LAMBDA j : j >= 1 /\ j <= Len(lines))

RECURSIVE ClaimTokens(_, _)
ClaimTokens(lines, js) ==
  IF js = <<>> THEN <<>>
  ELSE MatchDecimals(lines[Head(js)]) \o ClaimTokens(lines, Tail(js))

\* the k-th token's value, absent only when there are fewer than k tokens
ClaimTokenField(tokens, k) ==
  IF Len(tokens) >= k THEN parseFloat(tokens[k]) ELSE null

\* C7: the text strategy emits exactly one record per qualifying line, named by
\* the full line, whose five fields are the values of the first five decimal
\* tokens of the line's context window, in order; a field is absent only when the
\* window has fewer tokens, a token of value zero included.
C7_TextFieldsPositional ==
  pc = "extracted3" =>
    \E lines \in {PageLines(document.innerText)} :
      /\ Len(bonds) = Cardinality(Qualifying(lines))
      /\ \A i \in Qualifying(lines) :
           \E b \in {bonds[Cardinality({j \in Qualifying(lines) : j <= i})]},
              tokens \in {ClaimTokens(lines, ClaimWindow(lines, i))} :
             /\ b.name = lines[i]
             /\ b.coupon = ClaimTokenField(tokens, 1)
             /\ b.price = ClaimTokenField(tokens, 2)
             /\ b.yield = ClaimTokenField(tokens, 3)
             /\ b.oneMonth = ClaimTokenField(tokens, 4)
             /\ b.oneYear = ClaimTokenField(tokens, 5)

ClaimHeaderOk(txt) ==
  \E k \in 1..Len(HeaderKeywords) : ContainsAnyCase(txt, HeaderKeywords[k])

ClaimNameOk(name) ==
  /\ Len(name) > 1
  /\ ~ContainsAnyCase(name, "name")
  /\ ~ContainsAnyCase(name, "security")
  /\ \/ HasDigit(name)
     \/ \E w \in {"year", "month", "gilt", "treasury", "bond"} : ContainsAnyCase(name, w)

\* the (table, row) places of the document that the claim says emit a record
ClaimEmitting ==
  {p \in {<<t, j>> : t \in 1..Len(document.tables), j \in 2..(MaxRows + 2)} :
     /\ p[2] <= Len(document.tables[p[1]])
     /\ ClaimHeaderOk(document.tables[p[1]][1].textContent)
     /\ Len(document.tables[p[1]][p[2]].tdth) >= 2
     /\ ClaimNameOk(Trim(document.tables[p[1]][p[2]].tdth[1]))}

\* table order, then row order
ClaimBefore(p, q) == p[1] < q[1] \/ (p[1] = q[1] /\ p[2] <= q[2])

\* the k-th cell (counted from 0) as a number, absent when the row has no such cell
ClaimCell(cells, k) ==
  IF Len(cells) > k THEN parseNumeric(Trim(cells[k + 1])) ELSE null

\* C8: the table strategy emits a record for exactly the non-first rows of the
\* tables with at least 2 rows and a header naming one of the keywords, that have
\* at least 2 cells and an acceptable trimmed first cell; the record takes cell 0
\* as name and cells 1-5 as coupon, price, yield, oneMonth, oneYear (absent when
\* missing); records come in table order then row order, duplicates kept.
C8_TableRowsEmitted ==
  pc = "extracted1" =>
    /\ Len(bonds) = Cardinality(ClaimEmitting)
    /\ \A p \in ClaimEmitting :
         \E b \in {bonds[Cardinality({q \in ClaimEmitting : ClaimBefore(q, p)})]},
            cells \in {document.tables[p[1]][p[2]].tdth} :
           /\ b.name = Trim(cells[1])
           /\ b.coupon = ClaimCell(cells, 1)
           /\ b.price = ClaimCell(cells, 2)
           /\ b.yield = ClaimCell(cells, 3)
           /\ b.oneMonth = ClaimCell(cells, 4)
           /\ b.oneYear = ClaimCell(cells, 5)
           /\ b.country = countryName

\* two tables emitted, the same row text twice, next to a row with missing and
\* placeholder cells
C8_Witness ==
  /\ pc = "extracted1"
  /\ Len(document.tables) = 2
  /\ Len(bonds) = 3
  /\ bonds[1].name = bonds[3].name
  /\ bonds[2].coupon = null
  /\ bonds[2].oneYear # null

\* C10: no two items of the store have the same id.
C10_UniqueIds ==
  \A i, j \in 1..Len(data) : i # j => data[i].id # data[j].id

=============================================================================
